---- MODULE Spec2Model ----
(***************************************************************************)
(* Model of the financial-snapshot API of src/app.py: the FinancialData    *)
(* table and the request handlers that create, read, update and delete     *)
(* one user's monthly snapshots.                                           *)
(*                                                                         *)
(* Text is modelled as a sequence of one-character strings, so that the    *)
(* string operations of the handlers (strip, split, zfill, replace, the    *)
(* regular expression, float()) are computed character by character.       *)
(* A float is modelled as an exact decimal <<m, e>> = m * 10^(-e) with no  *)
(* trailing zero in m when e > 0; the rounding of binary floating point is *)
(* outside the model.                                                      *)
(***************************************************************************)
EXTENDS Integers, Sequences, FiniteSets, TLC

(***************************************************************************)
(* Bounds of the model.                                                    *)
(***************************************************************************)
NumUsers == 2
MaxId == 2

Users == 1..NumUsers

(***************************************************************************)
(* Characters and Python's str operations.                                 *)
(***************************************************************************)
Digits == {"0", "1", "2", "3", "4", "5", "6", "7", "8", "9"}
Whitespace == {" ", "\t", "\n"}

DigitVal(c) ==
    CASE c = "0" -> 0 [] c = "1" -> 1 [] c = "2" -> 2 [] c = "3" -> 3
      [] c = "4" -> 4 [] c = "5" -> 5 [] c = "6" -> 6 [] c = "7" -> 7
      [] c = "8" -> 8 [] c = "9" -> 9

AllDigits(s) == \A i \in 1..Len(s) : s[i] \in Digits

RECURSIVE ToInt(_)
ToInt(s) ==
    IF s = <<>> THEN 0
    ELSE 10 * ToInt(SubSeq(s, 1, Len(s) - 1)) + DigitVal(s[Len(s)])

\* str.lstrip() / str.rstrip() / str.strip() with no argument
RECURSIVE lstrip(_)
lstrip(s) ==
    IF s # <<>> /\ s[1] \in Whitespace THEN lstrip(Tail(s)) ELSE s

RECURSIVE rstrip(_)
rstrip(s) ==
    IF s # <<>> /\ s[Len(s)] \in Whitespace
    THEN rstrip(SubSeq(s, 1, Len(s) - 1)) ELSE s

strip(s) == rstrip(lstrip(s))

\* str.split(sep) for a one-character separator: the list of the parts
RECURSIVE split(_, _)
split(s, sep) ==
    IF \A i \in 1..Len(s) : s[i] # sep THEN << s >>
    ELSE LET i == CHOOSE k \in 1..Len(s) :
                      s[k] = sep /\ \A j \in 1..(k - 1) : s[j] # sep
         IN  << SubSeq(s, 1, i - 1) >> \o split(SubSeq(s, i + 1, Len(s)), sep)

\* str.zfill(width): zeros go after a leading sign
RECURSIVE zfill(_, _)
zfill(s, width) ==
    IF Len(s) >= width THEN s
    ELSE IF s # <<>> /\ s[1] \in {"+", "-"}
         THEN zfill(<< s[1], "0" >> \o Tail(s), width)
         ELSE zfill(<< "0" >> \o s, width)

\* str.replace(old, new) for a one-character old
RECURSIVE replace1(_, _, _)
replace1(s, old, new) ==
    IF s = <<>> THEN <<>>
    ELSE (IF s[1] = old THEN new ELSE << s[1] >>) \o replace1(Tail(s), old, new)

\* str.replace('R$', ''): left to right, the result is not scanned again
RECURSIVE removeRS(_)
removeRS(s) ==
    IF s = <<>> THEN <<>>
    ELSE IF Len(s) >= 2 /\ s[1] = "R" /\ s[2] = "$"
         THEN removeRS(SubSeq(s, 3, Len(s)))
         ELSE << s[1] >> \o removeRS(Tail(s))

(***************************************************************************)
(* Numbers.  A float is the decimal <<m, e>> = m * 10^(-e), normalised.    *)
(***************************************************************************)
RECURSIVE NormDec(_, _)
NormDec(m, e) ==
    IF e > 0 /\ m % 10 = 0 THEN NormDec(m \div 10, e - 1) ELSE << m, e >>

Zero == << 0, 0 >>

\* float(str): surrounding whitespace, an optional sign, digits with at most
\* one decimal point and at least one digit; anything else is a ValueError.
\* (Exponents, underscores, "inf" and "nan" use characters that the inputs
\* of this model do not contain.)
float_str(s) ==
    LET t    == strip(s)
        neg  == t # <<>> /\ t[1] = "-"
        body == IF t # <<>> /\ t[1] \in {"+", "-"} THEN Tail(t) ELSE t
        parts == split(body, ".")
        ip   == parts[1]
        fp   == IF Len(parts) = 2 THEN parts[2] ELSE <<>>
        ok   == /\ Len(parts) <= 2
                /\ AllDigits(ip) /\ AllDigits(fp)
                /\ Len(ip) + Len(fp) >= 1
        mag  == NormDec(ToInt(ip \o fp), Len(fp))
    IN  IF ok THEN [ok |-> TRUE, v |-> << (IF neg THEN -1 ELSE 1) * mag[1], mag[2] >>]
        ELSE [ok |-> FALSE, v |-> Zero]

(***************************************************************************)
(* JSON values of a request body: text, a number or null.  A body is a     *)
(* function from its keys to values; a key the body lacks is not in its    *)
(* DOMAIN (data['k'] raises KeyError).                                     *)
(***************************************************************************)
Jstr(s) == [t |-> "str",  s |-> s,    n |-> Zero]
Jnum(d) == [t |-> "num",  s |-> <<>>, n |-> d]
Jnull   == [t |-> "null", s |-> <<>>, n |-> Zero]

\* monetary values of the requests: R$ 1.234,50 as text, text that is no
\* amount, 5 as a number, null
CurrencyText == Jstr(<< "R", "$", " ", "1", ".", "2", "3", "4", ",", "5", "0" >>)
BadText      == Jstr(<< "a", "b", "c" >>)
Number5      == Jnum(<< 5, 0 >>)

MoneyValues == { CurrencyText, BadText, Number5, Jnull }

\* The eleven monetary columns, in the order the handlers read them.
FieldOrder ==
    << "cash_balance", "bank_balance", "accounts_receivable",
       "inventory_balance", "other_credits", "fixed_assets", "investments",
       "accounts_payable", "loans_financing", "installments_payable",
       "total_sales" >>

Fields == { FieldOrder[i] : i \in 1..Len(FieldOrder) }

(***************************************************************************)
(* The period key.                                                         *)
(***************************************************************************)
\* month, year = date_str.strip().split('/'); month.zfill(2); f"{month}/{year}"
\* The unpacking raises ValueError unless there are exactly two parts.
split_date(date_str) == split(strip(date_str), "/")

\* the month is not padded
join_date_no_zfill(parts) == parts[1] \o << "/" >> \o parts[2]

join_date(parts) == zfill(parts[1], 2) \o << "/" >> \o parts[2]

\* FinancialData.normalize_date: on any exception the input comes back.
normalize_date(date_str) ==
    IF Len(split_date(date_str)) = 2
    THEN join_date(split_date(date_str))
    ELSE date_str

\* any four-digit year is accepted
date_regex_core_any_year(s) ==
    /\ Len(s) = 7
    /\ \/ s[1] = "0" /\ s[2] \in (Digits \ {"0"})
       \/ s[1] = "1" /\ s[2] \in {"0", "1", "2"}
    /\ s[3] = "/"
    /\ \A i \in 4..7 : s[i] \in Digits

\* re.match(r'^(0[1-9]|1[0-2])/20[0-9]{2}$', s); $ also matches before a
\* final newline.
date_regex_core(s) ==
    /\ Len(s) = 7
    /\ \/ s[1] = "0" /\ s[2] \in (Digits \ {"0"})
       \/ s[1] = "1" /\ s[2] \in {"0", "1", "2"}
    /\ s[3] = "/"
    /\ s[4] = "2" /\ s[5] = "0"
    /\ s[6] \in Digits /\ s[7] \in Digits

date_regex_match(s) ==
    \/ date_regex_core(s)
    \/ Len(s) = 8 /\ s[8] = "\n" /\ date_regex_core(SubSeq(s, 1, 7))

\* datetime.strptime(s, '%m/%Y') raises ValueError unless s is a month of
\* one or two digits in 1..12, a slash and a four-digit year, and no more.
strptime_ok(s) ==
    \E k \in {1, 2} :
        /\ Len(s) = k + 5
        /\ AllDigits(SubSeq(s, 1, k))
        /\ ToInt(SubSeq(s, 1, k)) \in 1..12
        /\ s[k + 1] = "/"
        /\ AllDigits(SubSeq(s, k + 2, k + 5))
        /\ ToInt(SubSeq(s, k + 2, k + 5)) >= 1

\* only the month and the slash are validated
validate_date_month_only(s) ==
    /\ Len(s) >= 3
    /\ AllDigits(SubSeq(s, 1, 2)) /\ ToInt(SubSeq(s, 1, 2)) \in 1..12
    /\ s[3] = "/"

\* the validation of the normalised period: the regular expression, then
\* strptime
validate_date(s) == date_regex_match(s) /\ strptime_ok(s)

(***************************************************************************)
(* The FinancialData table: a set of rows.  No unique constraint is        *)
(* declared on (user_id, reference_date); id is the integer primary key,   *)
(* which SQLite assigns as the largest id in the table plus one.           *)
(***************************************************************************)
\* FinancialData(**kwargs): __init__ normalises reference_date; id is not
\* assigned (0) until the INSERT.
FinancialData(user_id, reference_date, vals) ==
    [ id |-> 0, user_id |-> user_id,
      reference_date |-> normalize_date(reference_date), vals |-> vals ]

RECURSIVE MaxOf(_)
MaxOf(S) ==
    IF S = {} THEN 0
    ELSE LET x == CHOOSE y \in S : TRUE
             m == MaxOf(S \ {x})
         IN  IF x > m THEN x ELSE m

NextId(store) == MaxOf({ r.id : r \in store }) + 1

\* the user's id is compared with the row's id
filter_by_wrong_column(store, user_id, reference_date) ==
    { r \in store : r.id = user_id /\ r.reference_date = reference_date }

\* FinancialData.query.filter_by(user_id=..., reference_date=...)
filter_by(store, user_id, reference_date) ==
    { r \in store : r.user_id = user_id /\ r.reference_date = reference_date }

\* the rows of every user
filter_by_user_unfiltered(store, user_id) == store

\* FinancialData.query.filter_by(user_id=...)
filter_by_user(store, user_id) == { r \in store : r.user_id = user_id }

\* The result of a handler: the HTTP status, the message of the body and
\* the table as committed when the request ends.
Response(status, message, store) ==
    [ status |-> status, message |-> message, db |-> store ]

(***************************************************************************)
(* POST /api/financial-data                                                *)
(***************************************************************************)
\* what cannot be parsed becomes -1.0
process_currency_default_minus_one(value) ==
    IF value.t = "str"
    THEN LET r == float_str(strip(replace1(replace1(removeRS(value.s),
                                                    ".", <<>>), ",", << "." >>)))
         IN  IF r.ok THEN r.v ELSE << -1, 0 >>
    ELSE << -1, 0 >>

\* process_currency: text is stripped of "R$" and of "." and its "," becomes
\* "." before float(); a ValueError, or a value that has no .replace (a JSON
\* number, null: AttributeError), gives 0.0.
process_currency(value) ==
    IF value.t = "str"
    THEN LET r == float_str(strip(replace1(replace1(removeRS(value.s),
                                                    ".", <<>>), ",", << "." >>)))
         IN  IF r.ok THEN r.v ELSE Zero
    ELSE Zero

\* process_currency on the values of the model, computed once
process_currency_of == [v \in MoneyValues |-> process_currency(v)]

\* The handler up to the construction of the new object: the validation of
\* the period and the existence query.  status 0: no response yet, obj is
\* the object to add.
add_financial_data_check(store, uid, data) ==
    LET reject(message) == [status |-> 400, message |-> message, obj |-> << >>] IN
    IF "reference_date" \notin DOMAIN data
    THEN reject("exception")                        \* KeyError, outer except
    ELSE IF data["reference_date"].t # "str"
    THEN reject("exception")                        \* AttributeError, outer except
    ELSE
    LET parts == split_date(data["reference_date"].s) IN
    IF Len(parts) # 2
    THEN reject("invalid_date_format")
    ELSE
    LET reference_date == join_date(parts) IN
    IF ~validate_date(reference_date)
    THEN reject("invalid_date_format")
    ELSE IF filter_by(store, uid, reference_date) # {}
    THEN reject("already_exists")
    ELSE IF \E f \in Fields : f \notin DOMAIN data
    THEN reject("missing_field")                    \* except KeyError
    ELSE [ status |-> 0, message |-> "",
           obj |-> FinancialData(uid, reference_date,
                       [f \in Fields |-> process_currency_of[data[f]]]) ]

\* db.session.add(obj); db.session.commit(): the INSERT and its commit
session_add_commit(store, obj) ==
    store \cup { [obj EXCEPT !.id = NextId(store)] }

add_financial_data(store, uid, data) ==
    LET c == add_financial_data_check(store, uid, data)
    IN  IF c.status # 0
        THEN Response(c.status, c.message, store)
        ELSE Response(200, "added", session_add_commit(store, c.obj))

(***************************************************************************)
(* Formatting of an amount for the read handlers.                          *)
(***************************************************************************)
RECURSIVE Pow10(_)
Pow10(n) == IF n = 0 THEN 1 ELSE 10 * Pow10(n - 1)

DigitChar(d) ==
    CASE d = 0 -> "0" [] d = 1 -> "1" [] d = 2 -> "2" [] d = 3 -> "3"
      [] d = 4 -> "4" [] d = 5 -> "5" [] d = 6 -> "6" [] d = 7 -> "7"
      [] d = 8 -> "8" [] d = 9 -> "9"

\* the decimal digits of a natural number
RECURSIVE ToDigits(_)
ToDigits(n) ==
    IF n < 10 THEN << DigitChar(n) >>
    ELSE ToDigits(n \div 10) \o << DigitChar(n % 10) >>

\* the ',' option of the format specification: a separator every three digits
RECURSIVE group3(_, _)
group3(ds, sep) ==
    IF Len(ds) <= 3 THEN ds
    ELSE group3(SubSeq(ds, 1, Len(ds) - 3), sep) \o << sep >>
             \o SubSeq(ds, Len(ds) - 2, Len(ds))

\* |x| in hundredths, rounded half to even (the decimal value is rounded;
\* the binary representation error of a float is outside the model)
round_cents(x) ==
    LET a == IF x[1] < 0 THEN -x[1] ELSE x[1]
    IN  IF x[2] <= 2 THEN a * Pow10(2 - x[2])
        ELSE LET p == Pow10(x[2] - 2)
                 q == a \div p
                 r == a % p
             IN  IF 2 * r > p \/ (2 * r = p /\ q % 2 = 1) THEN q + 1 ELSE q

\* f"R$ {value:,.2f}".replace(',', '_').replace('.', ',').replace('_', '.')
format_currency(value) ==
    LET c    == round_cents(value)
        text == (IF value[1] < 0 THEN << "-" >> ELSE <<>>)
                    \o group3(ToDigits(c \div 100), ",")
                    \o << ".", DigitChar((c % 100) \div 10), DigitChar(c % 10) >>
    IN  << "R", "$", " " >>
            \o replace1(replace1(replace1(text, ",", << "_" >>),
                                 ".", << "," >>), "_", << "." >>)

(***************************************************************************)
(* Ordering of rows: by id (the scan order of the table) and by the        *)
(* reference_date column, which is text and compares character by          *)
(* character.                                                              *)
(***************************************************************************)
\* code points of the characters that occur in the model
CharCode(c) ==
    CASE c = "\t" -> 9 [] c = "\n" -> 10 [] c = " " -> 32 [] c = "$" -> 36
      [] c = "%" -> 37 [] c = "+" -> 43 [] c = "," -> 44 [] c = "-" -> 45
      [] c = "." -> 46 [] c = "/" -> 47 [] c \in Digits -> 48 + DigitVal(c)
      [] c = "F" -> 70 [] c = "R" -> 82 [] c = "_" -> 95
      [] c = "a" -> 97 [] c = "b" -> 98 [] c = "c" -> 99

RECURSIVE text_less(_, _)
text_less(a, b) ==
    IF b = <<>> THEN FALSE
    ELSE IF a = <<>> THEN TRUE
    ELSE IF a[1] = b[1] THEN text_less(Tail(a), Tail(b))
    ELSE CharCode(a[1]) < CharCode(b[1])

\* .first(): the matching row the scan meets first, the one of least id
first(rows) == CHOOSE r \in rows : \A q \in rows : r.id <= q.id

\* .all(): the rows in scan order
RECURSIVE all(_)
all(rows) ==
    IF rows = {} THEN <<>>
    ELSE << first(rows) >> \o all(rows \ {first(rows)})

\* .order_by(FinancialData.reference_date).all(); equal keys in scan order
RECURSIVE order_by_reference_date(_)
order_by_reference_date(rows) ==
    IF rows = {} THEN <<>>
    ELSE LET least == { r \in rows : \A q \in rows :
                            ~text_less(q.reference_date, r.reference_date) }
             r0 == first(least)
         IN  << r0 >> \o order_by_reference_date(rows \ {r0})

\* .order_by(FinancialData.reference_date.desc()).all()
RECURSIVE order_by_reference_date_desc(_)
order_by_reference_date_desc(rows) ==
    IF rows = {} THEN <<>>
    ELSE LET greatest == { r \in rows : \A q \in rows :
                               ~text_less(r.reference_date, q.reference_date) }
             r0 == first(greatest)
         IN  << r0 >> \o order_by_reference_date_desc(rows \ {r0})

\* A handler's result that carries data
DataResponse(status, message, store, data) ==
    [ status |-> status, message |-> message, db |-> store, data |-> data ]

(***************************************************************************)
(* GET /api/financial-data                                                 *)
(***************************************************************************)
formatted_data(item) ==
    [ id |-> item.id, user_id |-> item.user_id,
      reference_date |-> item.reference_date,
      vals |-> [f \in Fields |-> format_currency(item.vals[f])] ]

list_financial_data(store, uid) ==
    LET data == all(filter_by_user(store, uid))
    IN  DataResponse(200, "list", store,
                     [i \in 1..Len(data) |-> formatted_data(data[i])])

(***************************************************************************)
(* GET /api/financial-data/<reference_date>                                *)
(***************************************************************************)
\* urllib.parse.unquote: %2F is '/', %20 is ' '; the other escapes use
\* characters that the inputs of this model do not contain.
RECURSIVE unquote(_)
unquote(s) ==
    IF s = <<>> THEN <<>>
    ELSE IF Len(s) >= 3 /\ s[1] = "%" /\ s[2] = "2" /\ s[3] = "F"
         THEN << "/" >> \o unquote(SubSeq(s, 4, Len(s)))
    ELSE IF Len(s) >= 3 /\ s[1] = "%" /\ s[2] = "2" /\ s[3] = "0"
         THEN << " " >> \o unquote(SubSeq(s, 4, Len(s)))
    ELSE << s[1] >> \o unquote(Tail(s))

get_financial_data(store, uid, reference_date) ==
    LET rows == filter_by(store, uid, unquote(reference_date))
    IN  IF rows = {}
        THEN DataResponse(404, "not_found", store, <<>>)
        ELSE LET data == first(rows)
             IN  DataResponse(200, "found", store,
                     [ id |-> data.id, reference_date |-> data.reference_date,
                       vals |-> [f \in Fields |-> format_currency(data.vals[f])] ])

(***************************************************************************)
(* GET /api/financial-data/months                                          *)
(***************************************************************************)
get_available_months(store, uid) ==
    LET data == order_by_reference_date_desc(filter_by_user(store, uid))
    IN  DataResponse(200, "months", store,
                     [i \in 1..Len(data) |-> data[i].reference_date])

(***************************************************************************)
(* PUT /api/financial-data                                                 *)
(***************************************************************************)
\* float(value): a number is itself, text is parsed (ValueError), null is a
\* TypeError.
to_float(value) ==
    IF value.t = "num" THEN [exc |-> "none", v |-> value.n]
    ELSE IF value.t = "str"
    THEN LET r == float_str(value.s)
         IN  IF r.ok THEN [exc |-> "none", v |-> r.v]
             ELSE [exc |-> "ValueError", v |-> Zero]
    ELSE [exc |-> "TypeError", v |-> Zero]

\* float() on the values of the model, computed once
to_float_of == [v \in MoneyValues |-> to_float(v)]

\* The eleven assignments, in order, on the object of the session: obj holds
\* what was assigned before the first exception.
RECURSIVE assign_fields(_, _, _)
assign_fields(i, obj, data) ==
    IF i > Len(FieldOrder) THEN [exc |-> "none", obj |-> obj]
    ELSE LET f == FieldOrder[i]
         IN  IF f \notin DOMAIN data THEN [exc |-> "KeyError", obj |-> obj]
             ELSE LET c == to_float_of[data[f]]
                  IN  IF c.exc # "none" THEN [exc |-> c.exc, obj |-> obj]
                      ELSE assign_fields(i + 1,
                               [obj EXCEPT !.vals[f] = c.v], data)

\* a value that `not value` takes for false: null, "", 0
falsy(value) ==
    \/ value.t = "null"
    \/ value.t = "str" /\ value.s = <<>>
    \/ value.t = "num" /\ value.n[1] = 0

\* The assignments change the object of the request's session only; the
\* table changes at db.session.commit().  A return without a commit leaves
\* the session to be discarded when the request ends, and the outer except
\* rolls it back.
update_financial_data(store, uid, data) ==
    IF DOMAIN data = {}
    THEN Response(400, "no_data", store)
    ELSE IF "reference_date" \notin DOMAIN data \/ falsy(data["reference_date"])
    THEN Response(400, "no_reference_date", store)
    ELSE
    LET rows == IF data["reference_date"].t = "str"
                THEN filter_by(store, uid, data["reference_date"].s)
                ELSE {}
    IN
    IF rows = {}
    THEN Response(404, "not_found", store)
    ELSE
    LET financial_data == first(rows)
        a == assign_fields(1, financial_data, data)
    IN  IF a.exc \in {"ValueError", "KeyError"}
        THEN Response(400, "convert_error", store)
        ELSE IF a.exc # "none"
        THEN Response(500, "exception", store)      \* rollback
        ELSE Response(200, "updated",
                      (store \ {financial_data}) \cup {a.obj})

(***************************************************************************)
(* DELETE /api/financial-data/<reference_date>                             *)
(***************************************************************************)
\* every row of the user is deleted
delete_financial_data_all_of_user(store, uid, reference_date) ==
    LET rows == filter_by(store, uid, reference_date)
    IN  IF rows = {}
        THEN Response(404, "not_found", store)
        ELSE Response(200, "deleted", store \ filter_by_user(store, uid))

\* the delete is not committed
delete_financial_data_no_commit(store, uid, reference_date) ==
    LET rows == filter_by(store, uid, reference_date)
    IN  IF rows = {}
        THEN Response(404, "not_found", store)
        ELSE Response(200, "deleted", store)

delete_financial_data(store, uid, reference_date) ==
    LET rows == filter_by(store, uid, reference_date)
    IN  IF rows = {}
        THEN Response(404, "not_found", store)
        ELSE Response(200, "deleted", store \ {first(rows)})

(***************************************************************************)
(* GET /api/financial-results                                              *)
(***************************************************************************)
\* a + b and a - b on decimals
dec_add(a, b) ==
    LET e == IF a[2] > b[2] THEN a[2] ELSE b[2]
    IN  NormDec(a[1] * Pow10(e - a[2]) + b[1] * Pow10(e - b[2]), e)

dec_sub(a, b) == dec_add(a, << -b[1], b[2] >>)

\* a / b * 100 as the fraction num / den with den > 0 (b is not zero)
percent_of(a, b) ==
    LET n == a[1] * Pow10(b[2]) * 100
        d == b[1] * Pow10(a[2])
    IN  IF d < 0 THEN [num |-> -n, den |-> -d] ELSE [num |-> n, den |-> d]

\* |q| in hundredths, rounded half to even
round_fraction_cents(q) ==
    LET a == (IF q.num < 0 THEN -q.num ELSE q.num) * 100
        n == a \div q.den
        r == a % q.den
    IN  IF 2 * r > q.den \/ (2 * r = q.den /\ n % 2 = 1) THEN n + 1 ELSE n

\* the digits of the '.2f' presentation of c hundredths
fixed2(c) ==
    ToDigits(c \div 100) \o << ".", DigitChar((c % 100) \div 10), DigitChar(c % 10) >>

\* f"{q:+.2f}%"
format_signed_percent(q) ==
    << (IF q.num < 0 THEN "-" ELSE "+") >>
        \o fixed2(round_fraction_cents(q)) \o << "%" >>

\* f"{q:.2f}%"
format_percent(q) ==
    (IF q.num < 0 THEN << "-" >> ELSE << >>)
        \o fixed2(round_fraction_cents(q)) \o << "%" >>

\* lines 447-458: the seven asset columns minus the three liability columns
equity_of(item) ==
    LET v == item.vals
    IN  dec_sub(dec_sub(dec_sub(
            dec_add(dec_add(dec_add(dec_add(dec_add(dec_add(
                v["cash_balance"], v["bank_balance"]),
                v["accounts_receivable"]), v["inventory_balance"]),
                v["other_credits"]), v["fixed_assets"]), v["investments"]),
            v["accounts_payable"]), v["loans_financing"]),
            v["installments_payable"])

\* previous_equity = None
None == << >>

\* lines 461-465; the division raises ZeroDivisionError when the previous
\* equity is zero
variation_text(equity, previous_equity) ==
    IF previous_equity = None
    THEN [ok |-> TRUE, s |-> << "N", "/", "A" >>]
    ELSE IF previous_equity[1] = 0
    THEN [ok |-> FALSE, s |-> << >>]
    ELSE LET variation == percent_of(dec_sub(equity, previous_equity),
                                     previous_equity)
         IN  [ok |-> TRUE,
              s |-> IF variation.num # 0
                    THEN format_signed_percent(variation)
                    ELSE << "0", ",", "0", "0", "%" >>]

\* line 468
revenue_result_text(equity, total_sales) ==
    IF total_sales[1] > 0
    THEN format_percent(percent_of(equity, total_sales))
    ELSE << "0", ".", "0", "0", "%" >>

\* line 471: item.reference_date.strftime('%m/%Y').  The column is
\* db.String, its value is a str, and a str has no strftime: the attribute
\* lookup raises AttributeError whatever the text is.
strftime(reference_date) == [ok |-> FALSE, s |-> << >>]

\* line 434: the user's rows ordered by the reference_date column
results_query(store, uid) ==
    order_by_reference_date(filter_by_user(store, uid))

\* lines 445-478: the loop over the rows; ok is FALSE when a pass raises
RECURSIVE results_loop(_, _, _, _)
results_loop(data, i, previous_equity, results) ==
    IF i > Len(data) THEN [ok |-> TRUE, rows |-> results]
    ELSE LET item      == data[i]
             equity    == equity_of(item)
             variation == variation_text(equity, previous_equity)
             month     == strftime(item.reference_date)
         IN  IF ~variation.ok \/ ~month.ok
             THEN [ok |-> FALSE, rows |-> << >>]
             ELSE results_loop(data, i + 1, equity,
                      Append(results,
                          [ month |-> month.s,
                            equity |-> format_currency(equity),
                            equity_raw |-> equity,
                            variation |-> variation.s,
                            revenue_result |->
                                revenue_result_text(equity,
                                                    item.vals["total_sales"]) ]))

\* With no row the answer is an empty list; an exception in the loop is
\* answered with status 500.
get_financial_results(store, uid) ==
    LET data == results_query(store, uid)
    IN  IF data = << >>
        THEN DataResponse(200, "success", store, << >>)
        ELSE LET l == results_loop(data, 1, None, << >>)
             IN  IF l.ok
                 THEN DataResponse(200, "success", store, l.rows)
                 ELSE DataResponse(500, "results_error", store, << >>)

(***************************************************************************)
(* Requests.                                                               *)
(***************************************************************************)
\* marks a key that a request body does not have
Absent == [t |-> "absent", s |-> <<>>, n |-> Zero]

\* periods as the client writes them
ValidDates ==
    { << "0", "1", "/", "2", "0", "2", "4" >>,
      << "1", "/", "2", "0", "2", "4" >>,
      << " ", "1", "/", "2", "0", "2", "4", " " >>,
      << "1", "2", "/", "2", "0", "2", "3" >> }

InvalidDates ==
    { << "1", "3", "/", "2", "0", "2", "4" >>,
      << "0", "0", "/", "2", "0", "2", "4" >>,
      << "/", "2", "0", "2", "4" >>,
      << "1", "/", "1", "9", "9", "9" >>,
      << "0", "1", "/", "2", "4" >>,
      << "0", "1", "2", "0", "2", "4" >>,
      << "1", "/", "2", "/", "2", "0", "2", "4" >>,
      << "a", "b", "/", "2", "0", "2", "4" >>,
      << "0", "1", "/", "2", "0", "a", "b" >>,
      << "1", " ", "/", "2", "0", "2", "4" >>,
      << "0", "0", "1", "/", "2", "0", "2", "4" >>,
      << >> }

RawDates == ValidDates \cup InvalidDates

\* the value of reference_date in a body
DateValues == { Jstr(d) : d \in RawDates } \cup { Jnull, Jnum(<< 5, 0 >>), Absent }

\* periods as the client writes them in a URL or in an update
LookupDates ==
    { << "0", "1", "/", "2", "0", "2", "4" >>,
      << "1", "/", "2", "0", "2", "4" >>,
      << "1", "2", "/", "2", "0", "2", "3" >>,
      << "0", "1", "%", "2", "F", "2", "0", "2", "4" >> }

\* the fields in which a body differs from the others: the first and the last
DevFields == { FieldOrder[1], FieldOrder[Len(FieldOrder)] }

\* a body with reference_date = date, field k = w and every other field = base
Body(date, base, k, w) ==
    [ key \in ({"reference_date"} \cup Fields)
                 \ ( (IF date = Absent THEN {"reference_date"} ELSE {})
                     \cup (IF w = Absent THEN {k} ELSE {}) )
        |-> IF key = "reference_date" THEN date
            ELSE IF key = k THEN w ELSE base ]

\* the canonical periods of the requests whose monetary fields vary
CoreDates ==
    { << "0", "1", "/", "2", "0", "2", "4" >>,
      << "1", "2", "/", "2", "0", "2", "3" >> }

\* creates: every period with all fields R$ 1.234,50; for the canonical
\* periods also a last field that is a number, no amount or null, and a
\* first or last field that is missing
CreateBodies ==
    { Body(d, CurrencyText, FieldOrder[1], CurrencyText) : d \in DateValues }
    \cup { Body(Jstr(d), CurrencyText, FieldOrder[Len(FieldOrder)], w) :
              d \in CoreDates, w \in { Number5, BadText, Jnull } }
    \cup { Body(Jstr(d), CurrencyText, k, Absent) :
              d \in CoreDates, k \in DevFields }

\* updates: every period with all fields 5; for the canonical periods also
\* a first or last field that is no number or is missing; the empty body
UpdateBodies ==
    { Body(d, Number5, FieldOrder[1], Number5) :
          d \in { Jstr(x) : x \in LookupDates }
                \cup { Jnull, Jstr(<< >>), Number5, Absent } }
    \cup { Body(Jstr(d), Number5, k, w) :
              d \in CoreDates, k \in DevFields,
              w \in { CurrencyText, BadText, Jnull, Absent } }
    \cup { << >> }

(***************************************************************************)
(* State and requests that run one at a time.                              *)
(***************************************************************************)
\* db: the committed table.  req: the create requests in progress, one per
\* worker (used when requests interleave).
VARIABLES db, req

vars == << db, req >>

NumProcs == 2
Procs == 1..NumProcs

Idle == [ pc |-> "idle", obj |-> << >>, status |-> 0, message |-> "" ]

Init ==
    /\ db = {}
    /\ req = [p \in Procs |-> Idle]

\* One request runs to completion: the table becomes the one the handler
\* has committed.  New rows are created while the table has an id below
\* MaxId to give.
Create(uid, data) ==
    LET r == add_financial_data(db, uid, data)
    IN  /\ r.db = db \/ NextId(db) <= MaxId
        /\ db' = r.db
        /\ UNCHANGED req

Update(uid, data) ==
    /\ db' = update_financial_data(db, uid, data).db
    /\ UNCHANGED req

Delete(uid, date) ==
    /\ db' = delete_financial_data(db, uid, date).db
    /\ UNCHANGED req

Get(uid, date) ==
    /\ db' = get_financial_data(db, uid, date).db
    /\ UNCHANGED req

ListAll(uid) ==
    /\ db' = list_financial_data(db, uid).db
    /\ UNCHANGED req

ListPeriods(uid) ==
    /\ db' = get_available_months(db, uid).db
    /\ UNCHANGED req

ComputeSeries(uid) ==
    /\ db' = get_financial_results(db, uid).db
    /\ UNCHANGED req

Next ==
    \/ \E uid \in Users, data \in CreateBodies : Create(uid, data)
    \/ \E uid \in Users, data \in UpdateBodies : Update(uid, data)
    \/ \E uid \in Users, date \in LookupDates : Delete(uid, date)
    \/ \E uid \in Users, date \in LookupDates : Get(uid, date)
    \/ \E uid \in Users : ListAll(uid)
    \/ \E uid \in Users : ListPeriods(uid)
    \/ \E uid \in Users : ComputeSeries(uid)

Spec == Init /\ [][Next]_vars

(***************************************************************************)
(* Concurrent requests.  Each worker runs add_financial_data in its own     *)
(* session, and the steps of two workers interleave: the validation and    *)
(* the existence query (which reads the committed table), db.session.add,  *)
(* db.session.commit, the return.  Deletes run in one step.                *)
(***************************************************************************)
\* lines 113-177: up to the new object, or the error response
BeginCreate(p, uid, data) ==
    LET c == add_financial_data_check(db, uid, data)
    IN  /\ req[p].pc = "idle"
        /\ req' = [req EXCEPT ![p] =
                     IF c.status # 0
                     THEN [ pc |-> "done", obj |-> << >>,
                            status |-> c.status, message |-> c.message ]
                     ELSE [ pc |-> "checked", obj |-> c.obj,
                            status |-> 0, message |-> "" ]]
        /\ UNCHANGED db

\* line 181: the object is pending in the worker's session
SessionAdd(p) ==
    /\ req[p].pc = "checked"
    /\ req' = [req EXCEPT ![p].pc = "added"]
    /\ UNCHANGED db

\* line 182: the INSERT and the commit; nothing in the table rejects a
\* second row of the same user and period
SessionCommit(p) ==
    /\ req[p].pc = "added"
    /\ NextId(db) <= MaxId
    /\ db' = session_add_commit(db, req[p].obj)
    /\ req' = [req EXCEPT ![p].pc = "done", ![p].status = 200,
                          ![p].message = "added"]

\* lines 186-189, 132-148, 193-204: the response is sent, the worker is free
Return(p) ==
    /\ req[p].pc = "done"
    /\ req' = [req EXCEPT ![p] = Idle]
    /\ UNCHANGED db

ConcDelete(uid, date) ==
    /\ db' = delete_financial_data(db, uid, date).db
    /\ UNCHANGED req

ConcBodies ==
    { Body(Jstr(d), CurrencyText, FieldOrder[1], CurrencyText) :
          d \in { << "0", "1", "/", "2", "0", "2", "4" >>,
                  << "1", "/", "2", "0", "2", "4" >> } }

NextConc ==
    \/ \E p \in Procs, uid \in Users, data \in ConcBodies : BeginCreate(p, uid, data)
    \/ \E p \in Procs : SessionAdd(p)
    \/ \E p \in Procs : SessionCommit(p)
    \/ \E p \in Procs : Return(p)
    \/ \E uid \in Users, date \in CoreDates : ConcDelete(uid, date)

SpecConc == Init /\ [][NextConc]_vars

(***************************************************************************)
(* Properties.                                                             *)
(***************************************************************************)
\* the snapshots of a user for a period
Snapshots(store, uid, period) ==
    { r \in store : r.user_id = uid /\ r.reference_date = period }

Keys(store) == { << r.user_id, r.reference_date >> : r \in store }

\* MM/YYYY: two digits, a slash, four digits
CanonicalForm(s) ==
    /\ Len(s) = 7
    /\ \A i \in {1, 2, 4, 5, 6, 7} : s[i] \in Digits
    /\ s[3] = "/"

\* MM/YYYY with the month in 01..12 and the year in 2000..2099
CanonicalPeriod(s) ==
    /\ CanonicalForm(s)
    /\ ToInt(SubSeq(s, 1, 2)) \in 1..12
    /\ ToInt(SubSeq(s, 4, 7)) \in 2000..2099

\* raw writes the canonical period p: p itself or p without the zero of its
\* month, with whitespace around it or not
Writes(raw, p) ==
    /\ CanonicalPeriod(p)
    /\ \/ strip(raw) = p
       \/ p[1] = "0" /\ strip(raw) = Tail(p)

\* the period that a body gives as text
HasDateText(data) ==
    "reference_date" \in DOMAIN data /\ data["reference_date"].t = "str"

DateText(data) == data["reference_date"].s

\* the period text of a body writes a valid period
WritesPeriod(data) ==
    /\ HasDateText(data)
    /\ \E p \in { strip(DateText(data)), << "0" >> \o strip(DateText(data)) } :
          Writes(DateText(data), p)

\* the canonical period that the period text of a body writes
PeriodOf(data) ==
    CHOOSE p \in { strip(DateText(data)), << "0" >> \o strip(DateText(data)) } :
        Writes(DateText(data), p)

\* C1: when requests run one at a time, the table holds at most one
\* snapshot for every user and period.
OneSnapshotPerKey ==
    \A r1 \in db, r2 \in db :
        (r1.user_id = r2.user_id /\ r1.reference_date = r2.reference_date)
            => r1 = r2

\* the table holds two snapshots of one user, and a further create for one
\* of their periods is refused
OneSnapshotPerKeyWitness ==
    \E r1 \in db, r2 \in db :
        /\ r1 # r2 /\ r1.user_id = r2.user_id
        /\ \E data \in CreateBodies :
              add_financial_data(db, r1.user_id, data).message = "already_exists"

\* C2: when create requests of one user for one period interleave, at most
\* one of them stores its snapshot: the table never holds two rows of one
\* user and period.
ConcurrentCreatesStayUnique ==
    \A r1 \in db, r2 \in db :
        r1.id # r2.id =>
            << r1.user_id, r1.reference_date >> # << r2.user_id, r2.reference_date >>

\* C3: every stored snapshot has its period in the form MM/YYYY, and a
\* create stores the canonical period that its input writes, whatever the
\* padding and the whitespace of the input.
StoredPeriodsCanonical ==
    /\ \A r \in db : CanonicalForm(r.reference_date)
    /\ \A uid \in Users, data \in CreateBodies :
          LET r == add_financial_data(db, uid, data)
          IN  r.status = 200 =>
                  /\ HasDateText(data)
                  /\ \A x \in r.db \ db :
                        /\ CanonicalForm(x.reference_date)
                        /\ Writes(DateText(data), x.reference_date)

\* a snapshot of 01/2024 is stored, and a create whose period is written
\* with whitespace and without the zero is accepted
StoredPeriodsCanonicalWitness ==
    /\ \E r \in db : r.reference_date = << "0", "1", "/", "2", "0", "2", "4" >>
    /\ \E uid \in Users, data \in CreateBodies :
          /\ HasDateText(data)
          /\ DateText(data) = << " ", "1", "/", "2", "0", "2", "4", " " >>
          /\ add_financial_data(db, uid, data).status = 200

\* C4: a create whose period writes the period of a snapshot that the user
\* already has is refused as a duplicate with status 400, and the table is
\* unchanged.
DuplicateCreateRejected ==
    \A uid \in Users, data \in CreateBodies :
        (/\ HasDateText(data)
         /\ \E x \in db : x.user_id = uid /\ Writes(DateText(data), x.reference_date))
        => LET r == add_financial_data(db, uid, data)
           IN  /\ r.status = 400
               /\ r.message = "already_exists"
               /\ r.db = db

\* a user has a snapshot of 01/2024 and their create for "1/2024" is
\* refused as a duplicate
DuplicateCreateRejectedWitness ==
    \E x \in db, data \in CreateBodies :
        /\ x.reference_date = << "0", "1", "/", "2", "0", "2", "4" >>
        /\ HasDateText(data)
        /\ DateText(data) = << "1", "/", "2", "0", "2", "4" >>
        /\ add_financial_data(db, x.user_id, data).message = "already_exists"

\* C5: a create succeeds only for a period that writes a month in 01..12
\* and a year in 2000..2099; for any other period text it is refused with
\* status 400 as an invalid period and the table is unchanged.
InvalidPeriodRejected ==
    \A uid \in Users, data \in CreateBodies :
        LET r == add_financial_data(db, uid, data)
        IN  ~WritesPeriod(data) =>
               /\ r.status # 200
               /\ r.db = db
               /\ HasDateText(data) =>
                      r.status = 400 /\ r.message = "invalid_date_format"

\* the table holds a snapshot and a create for month 13 is refused
InvalidPeriodRejectedWitness ==
    /\ db # {}
    /\ \E uid \in Users, data \in CreateBodies :
          /\ HasDateText(data)
          /\ DateText(data) = << "1", "3", "/", "2", "0", "2", "4" >>
          /\ add_financial_data(db, uid, data).message = "invalid_date_format"

\* C6: an update for a user and period that have no snapshot answers 404
\* and creates nothing; a successful create adds exactly its key, a
\* successful delete removes exactly its key, a refused create or delete
\* changes nothing, and update, get, listAll, listPeriods and computeSeries
\* leave the set of keys as it is.
KeysChangeOnlyByCreateAndDelete ==
    /\ \A uid \in Users, data \in UpdateBodies :
          LET r == update_financial_data(db, uid, data)
          IN  /\ Keys(r.db) = Keys(db)
              /\ Cardinality(r.db) = Cardinality(db)
              /\ (/\ HasDateText(data) /\ DateText(data) # << >>
                  /\ Snapshots(db, uid, DateText(data)) = {})
                 => r.status = 404 /\ r.message = "not_found" /\ r.db = db
    /\ \A uid \in Users, data \in CreateBodies :
          LET r == add_financial_data(db, uid, data)
          IN  IF r.status = 200
              THEN /\ WritesPeriod(data)
                   /\ << uid, PeriodOf(data) >> \notin Keys(db)
                   /\ Keys(r.db) = Keys(db) \cup { << uid, PeriodOf(data) >> }
                   /\ db \subseteq r.db
                   /\ Cardinality(r.db) = Cardinality(db) + 1
              ELSE r.db = db
    /\ \A uid \in Users, date \in LookupDates :
          LET r == delete_financial_data(db, uid, date)
          IN  IF r.status = 200
              THEN /\ << uid, date >> \in Keys(db)
                   /\ Keys(r.db) = Keys(db) \ { << uid, date >> }
                   /\ r.db \subseteq db
              ELSE r.db = db
    /\ \A uid \in Users :
          /\ list_financial_data(db, uid).db = db
          /\ get_available_months(db, uid).db = db
          /\ get_financial_results(db, uid).db = db
          /\ \A date \in LookupDates : get_financial_data(db, uid, date).db = db

\* a user has a snapshot of one period and none of another, and an update
\* for the other period answers 404
KeysChangeOnlyByCreateAndDeleteWitness ==
    \E x \in db, data \in UpdateBodies :
        /\ HasDateText(data)
        /\ DateText(data) \in CoreDates
        /\ DateText(data) # x.reference_date
        /\ Snapshots(db, x.user_id, DateText(data)) = {}
        /\ update_financial_data(db, x.user_id, data).status = 404

\* a value of a body that is a number, or text that float() reads
IsNumber(value) ==
    \/ value.t = "num"
    \/ value.t = "str" /\ float_str(value.s).ok

\* C7: an update of an existing snapshot in which a monetary field is
\* missing or is no number answers 400 as an invalid field and leaves the
\* table as it was.
BadUpdateRejectedWith400 ==
    \A uid \in Users, data \in UpdateBodies :
        (/\ HasDateText(data)
         /\ Snapshots(db, uid, DateText(data)) # {}
         /\ \E f \in Fields : f \notin DOMAIN data \/ ~IsNumber(data[f]))
        => LET r == update_financial_data(db, uid, data)
           IN  /\ r.status = 400
               /\ r.message = "convert_error"
               /\ r.db = db

\* C8: a delete for a user and period that have no snapshot answers 404 and
\* leaves the table as it was; otherwise it removes exactly the snapshot of
\* that user and period.  A get answers 404 exactly while the user has no
\* snapshot of the period, and no update, delete or create of another key
\* brings one back.
DeleteRemovesUntilCreate ==
    \A uid \in Users, date \in LookupDates :
        LET r == delete_financial_data(db, uid, date)
        IN  /\ Snapshots(db, uid, date) = {} =>
                  r.status = 404 /\ r.message = "not_found" /\ r.db = db
            /\ Snapshots(db, uid, date) # {} =>
                  /\ r.status = 200
                  /\ r.db = db \ Snapshots(db, uid, date)
                  /\ get_financial_data(r.db, uid, date).status = 404
            /\ (\A i \in 1..Len(date) : date[i] # "%") =>
                  (get_financial_data(db, uid, date).status = 404
                       <=> Snapshots(db, uid, date) = {})
            /\ Snapshots(db, uid, date) = {} =>
                  /\ \A u2 \in Users, data \in UpdateBodies :
                        Snapshots(update_financial_data(db, u2, data).db, uid, date) = {}
                  /\ \A u2 \in Users, d2 \in LookupDates :
                        Snapshots(delete_financial_data(db, u2, d2).db, uid, date) = {}
                  /\ \A u2 \in Users, data \in CreateBodies :
                        LET c == add_financial_data(db, u2, data)
                        IN  Snapshots(c.db, uid, date) # {} =>
                                /\ c.status = 200 /\ u2 = uid
                                /\ Writes(DateText(data), date)

\* the row of id 1 has been deleted and the row of id 2 remains; the get of
\* a period that the owner of the remaining row does not have answers 404
DeleteRemovesUntilCreateWitness ==
    /\ \E x \in db : x.id = 2
    /\ \A x \in db : x.id # 1
    /\ \E x \in db, date \in CoreDates :
          /\ Snapshots(db, x.user_id, date) = {}
          /\ get_financial_data(db, x.user_id, date).status = 404
          /\ delete_financial_data(db, x.user_id, date).status = 404

\* C9: a create stores, for every monetary field, the amount that the
\* input denotes: the number itself for a number, 1234.5 for "R$ 1.234,50".
CreateStoresDenotedAmount ==
    \A uid \in Users, data \in CreateBodies :
        LET r == add_financial_data(db, uid, data)
        IN  r.status = 200 =>
                \A x \in r.db \ db, f \in Fields :
                    /\ data[f].t = "num" => x.vals[f] = data[f].n
                    /\ data[f] = CurrencyText => x.vals[f] = << 12345, 1 >>

\* text without a digit, or null: a value that cannot be parsed
Unparseable(value) ==
    \/ value.t = "null"
    \/ value.t = "str" /\ \A i \in 1..Len(value.s) : value.s[i] \notin Digits

\* the create of a body is refused neither for its period nor as a duplicate
Creatable(uid, data) ==
    /\ WritesPeriod(data)
    /\ Snapshots(db, uid, PeriodOf(data)) = {}

\* exact decimals
IsAmount(v) == v \in Int \X Nat

\* C10 as stated: on create a monetary field that is absent or cannot be
\* parsed is stored as zero and the create succeeds.
AbsentOrUnparseableStoredAsZero ==
    \A uid \in Users, data \in CreateBodies :
        Creatable(uid, data) =>
            LET r == add_financial_data(db, uid, data)
            IN  /\ r.status = 200
                /\ \A x \in r.db \ db, f \in Fields :
                      (f \notin DOMAIN data \/ Unparseable(data[f]))
                          => x.vals[f] = Zero

\* C10 as amended: on create a monetary field that cannot be parsed is
\* stored as zero and the create succeeds; a body that lacks a monetary
\* field is refused with status 400 and nothing is stored; every stored
\* snapshot has its eleven monetary fields, each a number.
UnparseableStoredAsZero ==
    /\ \A x \in db : DOMAIN x.vals = Fields /\ \A f \in Fields : IsAmount(x.vals[f])
    /\ \A uid \in Users, data \in CreateBodies :
          Creatable(uid, data) =>
              LET r == add_financial_data(db, uid, data)
              IN  IF \E f \in Fields : f \notin DOMAIN data
                  THEN r.status = 400 /\ r.message = "missing_field" /\ r.db = db
                  ELSE /\ r.status = 200
                       /\ \A x \in r.db \ db, f \in Fields :
                             /\ IsAmount(x.vals[f])
                             /\ Unparseable(data[f]) => x.vals[f] = Zero

\* a snapshot is stored whose last field came from a value that cannot be
\* parsed and is zero next to a first field of 1234.5, and a create that
\* lacks a field is refused
UnparseableStoredAsZeroWitness ==
    /\ \E x \in db :
          /\ x.vals[FieldOrder[Len(FieldOrder)]] = Zero
          /\ x.vals[FieldOrder[1]] = << 12345, 1 >>
    /\ \E uid \in Users, data \in CreateBodies :
          /\ Creatable(uid, data)
          /\ add_financial_data(db, uid, data).message = "missing_field"

\* the equity of a snapshot: its assets minus its liabilities
EquityOf(x) ==
    LET F(f) == x.vals[f][1] * Pow10(2 - x.vals[f][2])
    IN  F("cash_balance") + F("bank_balance") + F("accounts_receivable")
          + F("inventory_balance") + F("other_credits") + F("fixed_assets")
          + F("investments") - F("accounts_payable") - F("loans_financing")
          - F("installments_payable")

\* C11: for a user who has n snapshots the series is a success result with
\* exactly n rows, one per snapshot, whose month is the period of that
\* snapshot and whose equity is the equity of that snapshot.
SeriesHasOneRowPerSnapshot ==
    \A uid \in Users :
        LET own == filter_by_user(db, uid)
            r   == get_financial_results(db, uid)
        IN  /\ r.status = 200
            /\ Len(r.data) = Cardinality(own)
            /\ \E h \in [1..Len(r.data) -> own] :
                  /\ \A i, j \in 1..Len(r.data) : h[i] = h[j] => i = j
                  /\ \A i \in 1..Len(r.data) :
                        /\ r.data[i].month = h[i].reference_date
                        /\ r.data[i].equity_raw[1]
                              * Pow10(2 - r.data[i].equity_raw[2])
                             = EquityOf(h[i])

\* the year and the month of a stored period
YearOf(period)  == ToInt(SubSeq(period, 4, 7))
MonthOf(period) == ToInt(SubSeq(period, 1, 2))

\* period p is chronologically before period q
Earlier(p, q) ==
    \/ YearOf(p) < YearOf(q)
    \/ YearOf(p) = YearOf(q) /\ MonthOf(p) < MonthOf(q)

\* C12: the series handler processes the snapshots of a user in
\* chronological ascending order, year first and then month, so that the
\* snapshot processed just before another one is never chronologically
\* after it, also when the periods span more than one year.
SeriesProcessedChronologically ==
    \A uid \in Users :
        LET data == results_query(db, uid)
        IN  \A i, j \in 1..Len(data) :
                i < j => ~Earlier(data[j].reference_date,
                                  data[i].reference_date)

\* the text of 100 * (e - p) / p for equities e and p in hundredths, p not
\* zero: a sign, the digits with two decimals, a percent sign
SignedPercent(e, p) ==
    LET n  == IF p < 0 THEN -(100 * (e - p)) ELSE 100 * (e - p)
        d  == IF p < 0 THEN -p ELSE p
        a  == IF n < 0 THEN -n ELSE n
        q  == (a \div d) * 100 + ((a % d) * 100) \div d
        r  == ((a % d) * 100) % d
        c  == IF 2 * r > d \/ (2 * r = d /\ q % 2 = 1) THEN q + 1 ELSE q
    IN  << (IF n < 0 THEN "-" ELSE "+") >> \o ToDigits(c \div 100)
            \o << ".", DigitChar((c % 100) \div 10), DigitChar(c % 10) >>
            \o << "%" >>

\* C13: in the series of a user whose equities are not zero the first row's
\* variation is "N/A" and every later row's variation is
\* (equity - previous_equity) / previous_equity * 100 as a signed
\* percentage with two decimals, previous_equity being the equity of the
\* row before.
SeriesVariationFormula ==
    \A uid \in Users :
        LET data == results_query(db, uid)
            r    == get_financial_results(db, uid)
        IN  (data # << >> /\ \A i \in 1..Len(data) : EquityOf(data[i]) # 0)
            => /\ r.status = 200
               /\ Len(r.data) = Len(data)
               /\ r.data[1].variation = << "N", "/", "A" >>
               /\ \A i \in 2..Len(r.data) :
                     r.data[i].variation
                         = SignedPercent(EquityOf(data[i]),
                                         EquityOf(data[i - 1]))

\* a snapshot without its id
NoId(x) ==
    [ user_id |-> x.user_id, reference_date |-> x.reference_date,
      vals |-> x.vals ]

\* the rows of a table that are of user uid, and those that are not
OwnOf(store, uid)    == { x \in store : x.user_id = uid }
OthersOf(store, uid) == { x \in store : x.user_id # uid }

\* a response without the table
Answer(r) ==
    IF "data" \in DOMAIN r
    THEN << r.status, r.message, r.data >>
    ELSE << r.status, r.message >>

\* results r (on the whole table) and r0 (on the rows of uid alone) of one
\* request of user uid: the rows of the other users are as before, the
\* answer is the same, and the rows of uid are the same up to the id of a
\* new row
Isolated(uid, r, r0) ==
    /\ OthersOf(r.db, uid) = OthersOf(db, uid)
    /\ Answer(r) = Answer(r0)
    /\ { NoId(x) : x \in OwnOf(r.db, uid) }
          = { NoId(x) : x \in r0.db }

====
